---- MODULE Spec2Model ----
(***************************************************************************)
(* Model of tools/claude-usage-monitor.py: the ClaudeUsageMonitor          *)
(* aggregation engine (parse_session_file, process_entry,                  *)
(* track_agent_usage, track_tool_tokens, analyze_all_sessions) and the     *)
(* effect of the two report generators on the aggregation state.           *)
(*                                                                         *)
(* JSON values are abstracted by their shape: a value the code calls       *)
(* .get() on is "dict" (a JSON object), "absent" (key missing, so the      *)
(* .get default applies) or "other" (null, a number, a string, a list:     *)
(* .get raises AttributeError).  Strings that the code only tests for      *)
(* truthiness use "" for both a missing key and an empty string.  Token    *)
(* counts are naturals.                                                    *)
(***************************************************************************)
EXTENDS Integers, Sequences, FiniteSets, TLC

-----------------------------------------------------------------------------
(* Bounds of the model                                                     *)

MaxFiles == 2
MaxLines == 2
MaxBlocks == 2

-----------------------------------------------------------------------------
(* Input alphabet                                                          *)

cutoff_date == 2

ToolNames == {"Read", "Task"}
AgentNames == {"reviewer", "planner"}
SessionIds == {"s1", "s2"}
UsageKeys == {"input_tokens", "output_tokens",
              "cache_creation_input_tokens", "cache_read_input_tokens"}

\* entry.get('timestamp'): missing/empty, an ISO string with a UTC offset
\* (an instant), a string fromisoformat rejects, an ISO string without an
\* offset (a naive datetime), or a truthy non-string.
Timestamps ==
    {[kind |-> "absent", at |-> 0], [kind |-> "garbage", at |-> 0],
     [kind |-> "naive", at |-> 0], [kind |-> "nonstr", at |-> 0]}
    \cup {[kind |-> "aware", at |-> t] :
             t \in {cutoff_date - 1, cutoff_date, cutoff_date + 1}}

\* message['usage']: missing, no object, or an object with some of the four
\* keys present.
NoFields == [k \in {} |-> 0]
Usages ==
    {[shape |-> "absent", fields |-> NoFields],
     [shape |-> "other", fields |-> NoFields],
     [shape |-> "dict",
      fields |-> [k \in UsageKeys \ {"cache_creation_input_tokens"} |->
                    CASE k = "input_tokens" -> 100
                      [] k = "output_tokens" -> 2
                      [] OTHER -> 3]]}

SomeUsage == CHOOSE u \in Usages : u.shape = "dict"

\* item['input'] of a tool_use block: missing, no object, or an object.
Inputs ==
    {[shape |-> "absent", subagent_type |-> "", agent |-> ""],
     [shape |-> "other", subagent_type |-> "", agent |-> ""],
     [shape |-> "dict", subagent_type |-> "", agent |-> ""],
     [shape |-> "dict", subagent_type |-> "reviewer", agent |-> ""],
     [shape |-> "dict", subagent_type |-> "", agent |-> "planner"]}

NoInput == [shape |-> "absent", subagent_type |-> "", agent |-> ""]

\* Items of message['content']: no object, a text block, a tool_use block
\* without a name, and tool_use blocks of the tools.
Blocks ==
    {[shape |-> "other", type |-> "", name |-> "", input |-> NoInput],
     [shape |-> "dict", type |-> "text", name |-> "Read", input |-> NoInput],
     [shape |-> "dict", type |-> "tool_use", name |-> "", input |-> NoInput],
     [shape |-> "dict", type |-> "tool_use", name |-> "Read", input |-> NoInput]}
    \cup {[shape |-> "dict", type |-> "tool_use", name |-> "Task", input |-> i] :
             i \in Inputs}

SeqsUpTo(S, n) == UNION {[1..k -> S] : k \in 0..n}

NoUsage == [shape |-> "absent", fields |-> NoFields]

\* entry['message']: missing, no object, an object whose content is no list,
\* or an object with a list of blocks and a usage.
Messages ==
    {[shape |-> "absent", list |-> TRUE, content |-> <<>>, usage |-> NoUsage],
     [shape |-> "other", list |-> TRUE, content |-> <<>>, usage |-> NoUsage],
     [shape |-> "dict", list |-> FALSE, content |-> <<>>, usage |-> NoUsage]}
    \cup {[shape |-> "dict", list |-> TRUE, content |-> c, usage |-> u] :
             c \in SeqsUpTo(Blocks, MaxBlocks), u \in Usages}

NoMessage == [shape |-> "absent", list |-> TRUE, content |-> <<>>, usage |-> NoUsage]
NoTimestamp == [kind |-> "absent", at |-> 0]

\* The messages the timestamps are tried with: one Read block, and one Task
\* block naming an agent.
TimedMessages ==
    {m \in Messages :
        /\ m.usage = SomeUsage
        /\ Len(m.content) = 1
        /\ m.content[1].name # ""
        /\ m.content[1].type = "tool_use"
        /\ m.content[1].input.shape # "other"
        /\ m.content[1].input.agent = ""
        /\ m.content[1].name = "Task" => m.content[1].input.subagent_type # ""}

\* The values json.loads returns for a line: no object; objects of one
\* session with every kind of timestamp; objects without a timestamp, of
\* another session or of none, with every message.
Entries ==
    {[shape |-> "other", timestamp |-> NoTimestamp, sessionId |-> "",
      message |-> NoMessage]}
    \cup {[shape |-> "dict", timestamp |-> t, sessionId |-> "s2", message |-> m] :
             t \in Timestamps, m \in TimedMessages}
    \cup {[shape |-> "dict", timestamp |-> NoTimestamp, sessionId |-> s,
           message |-> m] :
             s \in {"", "s1"}, m \in Messages}

NoEntry == [shape |-> "other", timestamp |-> NoTimestamp, sessionId |-> "",
            message |-> NoMessage]

\* Lines of a session file.
Lines ==
    {[kind |-> "blank", entry |-> NoEntry], [kind |-> "badjson", entry |-> NoEntry]}
    \cup {[kind |-> "json", entry |-> e] : e \in Entries}

-----------------------------------------------------------------------------
(* The aggregation state and the operations on it                          *)

NoKeys == [k \in {} |-> 0]

\* ClaudeUsageMonitor.__init__: the storage for analytics.
Fresh == [tool_usage |-> NoKeys, tool_token_usage |-> NoKeys,
          agent_usage |-> NoKeys, sessions_analyzed |-> {}]

\* The defaultdict factories.
NewToolTokens == [input_tokens |-> 0, output_tokens |-> 0,
                  cache_creation_tokens |-> 0, cache_read_tokens |-> 0]
NewAgent == [count |-> 0, total_input_tokens |-> 0, total_output_tokens |-> 0,
             total_cache_creation_tokens |-> 0, total_cache_read_tokens |-> 0,
             sessions |-> {}]

\* d[key] of a defaultdict: a missing key is inserted with the default.
Touch(d, key, default) == IF key \in DOMAIN d THEN d ELSE d @@ (key :> default)

\* usage.get(key, 0)
UsageGet(usage, key) ==
    IF key \in DOMAIN usage.fields THEN usage.fields[key] ELSE 0

\* The outcome of a call: the state it leaves and the exception that left it
\* ("" when it returned).
Ok(st) == [st |-> st, raised |-> ""]
Raise(st, exc) == [st |-> st, raised |-> exc]

\* track_agent_usage with the session set assigned instead of added to.
track_agent_usage_overwriting(st, agent_name, message, session_id) ==
    LET usage == message.usage
        a0 == Touch(st.agent_usage, agent_name, NewAgent)
        a1 == [a0 EXCEPT ![agent_name].count = @ + 1]
        a2 == [a1 EXCEPT
                 ![agent_name].total_input_tokens =
                     @ + UsageGet(usage, "input_tokens"),
                 ![agent_name].total_output_tokens =
                     @ + UsageGet(usage, "output_tokens"),
                 ![agent_name].total_cache_creation_tokens =
                     @ + UsageGet(usage, "cache_creation_input_tokens"),
                 ![agent_name].total_cache_read_tokens =
                     @ + UsageGet(usage, "cache_read_input_tokens")]
        a3 == IF session_id # ""
              THEN [a2 EXCEPT ![agent_name].sessions = {session_id}]
              ELSE a2
    IN  IF usage.shape = "other"
        THEN Raise([st EXCEPT !.agent_usage = a1], "AttributeError")
        ELSE Ok([st EXCEPT !.agent_usage = a3])

\* track_agent_usage: the count is incremented before usage.get is first
\* called, so a usage that is no object raises after the increment.
track_agent_usage(st, agent_name, message, session_id) ==
    LET usage == message.usage
        a0 == Touch(st.agent_usage, agent_name, NewAgent)
        a1 == [a0 EXCEPT ![agent_name].count = @ + 1]
        a2 == [a1 EXCEPT
                 ![agent_name].total_input_tokens =
                     @ + UsageGet(usage, "input_tokens"),
                 ![agent_name].total_output_tokens =
                     @ + UsageGet(usage, "output_tokens"),
                 ![agent_name].total_cache_creation_tokens =
                     @ + UsageGet(usage, "cache_creation_input_tokens"),
                 ![agent_name].total_cache_read_tokens =
                     @ + UsageGet(usage, "cache_read_input_tokens")]
        a3 == IF session_id # ""
              THEN [a2 EXCEPT ![agent_name].sessions = @ \cup {session_id}]
              ELSE a2
    IN  IF usage.shape = "other"
        THEN Raise([st EXCEPT !.agent_usage = a1], "AttributeError")
        ELSE Ok([st EXCEPT !.agent_usage = a3])

\* track_tool_tokens with = in place of +=.
track_tool_tokens_assigning(st, tool_name, message) ==
    LET usage == message.usage
        t0 == Touch(st.tool_token_usage, tool_name, NewToolTokens)
        t1 == [t0 EXCEPT
                 ![tool_name].input_tokens = UsageGet(usage, "input_tokens"),
                 ![tool_name].output_tokens = UsageGet(usage, "output_tokens"),
                 ![tool_name].cache_creation_tokens =
                     UsageGet(usage, "cache_creation_input_tokens"),
                 ![tool_name].cache_read_tokens =
                     UsageGet(usage, "cache_read_input_tokens")]
    IN  IF usage.shape = "other"
        THEN Raise([st EXCEPT !.tool_token_usage = t0], "AttributeError")
        ELSE Ok([st EXCEPT !.tool_token_usage = t1])

\* track_tool_tokens: the defaultdict entry is created before usage.get is
\* first called.
track_tool_tokens(st, tool_name, message) ==
    LET usage == message.usage
        t0 == Touch(st.tool_token_usage, tool_name, NewToolTokens)
        t1 == [t0 EXCEPT
                 ![tool_name].input_tokens = @ + UsageGet(usage, "input_tokens"),
                 ![tool_name].output_tokens = @ + UsageGet(usage, "output_tokens"),
                 ![tool_name].cache_creation_tokens =
                     @ + UsageGet(usage, "cache_creation_input_tokens"),
                 ![tool_name].cache_read_tokens =
                     @ + UsageGet(usage, "cache_read_input_tokens")]
    IN  IF usage.shape = "other"
        THEN Raise([st EXCEPT !.tool_token_usage = t0], "AttributeError")
        ELSE Ok([st EXCEPT !.tool_token_usage = t1])

\* self.tool_usage[tool_name] += 1 (a Counter).
CountTool(st, tool_name) ==
    LET c == Touch(st.tool_usage, tool_name, 0)
    IN  [st EXCEPT !.tool_usage = [c EXCEPT ![tool_name] = @ + 1]]

\* tool_input.get('subagent_type') or tool_input.get('agent')
Subagent(tool_input) ==
    IF tool_input.subagent_type # "" THEN tool_input.subagent_type
    ELSE tool_input.agent

\* The loop body with the token tracking in the else branch of the Task test.
ProcessItem_tokens_in_else(st, item, message, session_id) ==
    IF item.shape = "dict" /\ item.type = "tool_use" /\ item.name # ""
    THEN LET s1 == CountTool(st, item.name)
         IN  IF item.name = "Task"
             THEN IF item.input.shape = "other"
                  THEN Raise(s1, "AttributeError")
                  ELSE IF Subagent(item.input) # ""
                       THEN track_agent_usage(s1, Subagent(item.input),
                                              message, session_id)
                       ELSE Ok(s1)
             ELSE track_tool_tokens(s1, item.name, message)
    ELSE Ok(st)

\* The body of the loop over message['content'] for one item.
ProcessItem(st, item, message, session_id) ==
    IF item.shape = "dict" /\ item.type = "tool_use" /\ item.name # ""
    THEN LET s1 == CountTool(st, item.name)
         IN  IF item.name = "Task"
             THEN IF item.input.shape = "other"
                  THEN Raise(s1, "AttributeError")
                  ELSE IF Subagent(item.input) # ""
                       THEN LET r == track_agent_usage(s1, Subagent(item.input),
                                                       message, session_id)
                            IN  IF r.raised # "" THEN r
                                ELSE track_tool_tokens(r.st, item.name, message)
                       ELSE track_tool_tokens(s1, item.name, message)
             ELSE track_tool_tokens(s1, item.name, message)
    ELSE Ok(st)

RECURSIVE ProcessItems(_, _, _, _)
ProcessItems(st, items, message, session_id) ==
    IF items = <<>> THEN Ok(st)
    ELSE LET r == ProcessItem(st, Head(items), message, session_id)
         IN  IF r.raised # "" THEN r
             ELSE ProcessItems(r.st, Tail(items), message, session_id)

\* The try body of the date-range check of process_entry: "return" (the
\* entry is before the cutoff), "" (it is not) or the exception raised:
\* timestamp.replace on a non-string, fromisoformat on a string it rejects,
\* and < between a naive and an aware datetime.
DateTry(timestamp) ==
    CASE timestamp.kind = "nonstr" -> "AttributeError"
      [] timestamp.kind = "garbage" -> "ValueError"
      [] timestamp.kind = "naive" -> "TypeError"
      [] OTHER -> IF timestamp.at < cutoff_date THEN "return" ELSE ""

\* if timestamp: try ... except ValueError: pass
DateCheck(timestamp) ==
    IF timestamp.kind = "absent" THEN ""
    ELSE IF DateTry(timestamp) = "ValueError" THEN "" ELSE DateTry(timestamp)

\* process_entry: the new aggregation state, and the exception that left it.
process_entry(st, entry) ==
    IF entry.shape # "dict" THEN Raise(st, "AttributeError")
    ELSE LET check == DateCheck(entry.timestamp)
             session_id == entry.sessionId
             s1 == IF session_id # ""
                   THEN [st EXCEPT !.sessions_analyzed = @ \cup {session_id}]
                   ELSE st
             message == entry.message
         IN  CASE check = "return" -> Ok(st)
               [] check # "" /\ check # "return" -> Raise(st, check)
               [] OTHER ->
                    IF message.shape = "other" THEN Raise(s1, "AttributeError")
                    ELSE IF message.list
                         THEN ProcessItems(s1, message.content, message, session_id)
                         ELSE Ok(s1)

\* parse_session_file without the inner handler.
CaughtInner_nothing(exc) == FALSE

\* The exceptions the two handlers of parse_session_file catch.
CaughtInner(exc) == exc = "JSONDecodeError"
CaughtOuter(exc) ==
    exc \in {"JSONDecodeError", "ValueError", "AttributeError", "TypeError",
             "OSError", "UnicodeDecodeError"}

\* One iteration of the loop of parse_session_file over the lines:
\* json.loads, then process_entry, inside the inner try.
ParseLine(st, line) ==
    CASE line.kind = "blank" -> Ok(st)
      [] line.kind = "badjson" -> Raise(st, "JSONDecodeError")
      [] OTHER -> process_entry(st, line.entry)

\* What parse_session_file does with the outcome of a line: the inner
\* handler continues with the next line, the outer one reports the error and
\* leaves the file, and anything else leaves analyze_all_sessions.
LineOutcome(exc) ==
    IF exc = "" \/ CaughtInner(exc) THEN "continue"
    ELSE IF CaughtOuter(exc) THEN "reported"
    ELSE "crashed"

\* parse_session_file on the lines of a file it could open: the state it
\* leaves and how it ended ("continue": the file was read to its end).
RECURSIVE parse_session_file(_, _)
parse_session_file(st, lines) ==
    IF lines = <<>> THEN [st |-> st, outcome |-> "continue"]
    ELSE LET r == ParseLine(st, Head(lines))
         IN  IF LineOutcome(r.raised) = "continue"
             THEN parse_session_file(r.st, Tail(lines))
             ELSE [st |-> r.st, outcome |-> LineOutcome(r.raised)]

\* sum(f[k] for k in S)
RECURSIVE SumOver(_, _)
SumOver(f, S) ==
    IF S = {} THEN 0
    ELSE LET k == CHOOSE x \in S : TRUE
         IN  f[k] + SumOver(f, S \ {k})

SumField(d, field) == SumOver([k \in DOMAIN d |-> d[k][field]], DOMAIN d)

\* The text report reads self.tool_token_usage[tool] for every tool of
\* tool_usage: a defaultdict inserts the keys it is asked for.
TextReportTouch(st) ==
    [st EXCEPT !.tool_token_usage =
        @ @@ [T \in DOMAIN st.tool_usage \ DOMAIN @ |-> NewToolTokens]]

\* total // count if count > 0 else 0
Average(total, count) == IF count > 0 THEN total \div count ELSE 0

\* Billable = Input + (Output * 3) + Cache Creation
Billable(input, output, cache_creation) == input + output * 3 + cache_creation

\* The component sums of the cost estimate: tools and agents combined.
total_input(st) ==
    SumField(st.tool_token_usage, "input_tokens")
    + SumField(st.agent_usage, "total_input_tokens")
total_output(st) ==
    SumField(st.tool_token_usage, "output_tokens")
    + SumField(st.agent_usage, "total_output_tokens")
total_cache_create(st) ==
    SumField(st.tool_token_usage, "cache_creation_tokens")
    + SumField(st.agent_usage, "total_cache_creation_tokens")
total_cache_read_all(st) ==
    SumField(st.tool_token_usage, "cache_read_tokens")
    + SumField(st.agent_usage, "total_cache_read_tokens")
total_billable_all(st) ==
    Billable(total_input(st), total_output(st), total_cache_create(st))

\* The data generate_text_report prints, computed on the state it leaves.
TextReport(st, files) ==
    [format |-> "text",
     sessions_analyzed |-> Cardinality(st.sessions_analyzed),
     total_session_files |-> files,
     agent_usage |-> [A \in DOMAIN st.agent_usage |->
        [count |-> st.agent_usage[A].count,
         avg_input_tokens |->
            Average(st.agent_usage[A].total_input_tokens, st.agent_usage[A].count),
         avg_output_tokens |->
            Average(st.agent_usage[A].total_output_tokens, st.agent_usage[A].count),
         sessions |-> Cardinality(st.agent_usage[A].sessions)]],
     tool_usage |-> st.tool_usage,
     tool_token_usage |-> st.tool_token_usage,
     total_tool_calls |-> SumOver(st.tool_usage, DOMAIN st.tool_usage),
     total_agent_invocations |-> SumField(st.agent_usage, "count"),
     total_billable_all |-> total_billable_all(st),
     total_cache_read_all |-> total_cache_read_all(st),
     total_input |-> total_input(st),
     total_output |-> total_output(st),
     total_cache_create |-> total_cache_create(st)]

\* The object generate_json_report serialises.
JsonReport(st, files) ==
    [format |-> "json",
     sessions_analyzed |-> Cardinality(st.sessions_analyzed),
     total_session_files |-> files,
     agent_usage |-> [A \in DOMAIN st.agent_usage |->
        [count |-> st.agent_usage[A].count,
         total_input_tokens |-> st.agent_usage[A].total_input_tokens,
         total_output_tokens |-> st.agent_usage[A].total_output_tokens,
         total_cache_creation_tokens |->
            st.agent_usage[A].total_cache_creation_tokens,
         total_cache_read_tokens |-> st.agent_usage[A].total_cache_read_tokens,
         avg_input_tokens |->
            Average(st.agent_usage[A].total_input_tokens, st.agent_usage[A].count),
         avg_output_tokens |->
            Average(st.agent_usage[A].total_output_tokens, st.agent_usage[A].count),
         sessions |-> st.agent_usage[A].sessions]],
     tool_usage |-> st.tool_usage,
     tool_token_usage |-> st.tool_token_usage,
     total_tool_calls |-> SumOver(st.tool_usage, DOMAIN st.tool_usage),
     unique_tools_used |-> Cardinality(DOMAIN st.tool_usage),
     total_agent_invocations |-> SumField(st.agent_usage, "count"),
     unique_agents_used |-> Cardinality(DOMAIN st.agent_usage)]

-----------------------------------------------------------------------------
(* What the specification says an entry contributes                        *)

\* The time-window rule: excluded iff the timestamp is an instant strictly
\* before the cutoff.
Excluded(entry) ==
    entry.timestamp.kind = "aware" /\ entry.timestamp.at < cutoff_date

Retained(entry) == entry.shape = "dict" /\ ~Excluded(entry)

\* The content blocks of an entry.
BlocksOf(entry) ==
    IF entry.shape = "dict" /\ entry.message.shape = "dict" /\ entry.message.list
    THEN entry.message.content ELSE <<>>

\* The positions of the tool_use blocks naming tool T.
ToolBlocks(entry, T) ==
    {i \in DOMAIN BlocksOf(entry) :
        LET b == BlocksOf(entry)[i]
        IN  b.shape = "dict" /\ b.type = "tool_use" /\ b.name = T}

\* The agent a block names: subagent_type, or failing that agent.
AgentOf(b) ==
    IF b.input.shape # "dict" THEN ""
    ELSE IF b.input.subagent_type # "" THEN b.input.subagent_type
    ELSE b.input.agent

\* The positions of the Task blocks naming agent A.
AgentBlocks(entry, A) ==
    {i \in ToolBlocks(entry, "Task") : AgentOf(BlocksOf(entry)[i]) = A}

\* A field of the entry's usage, absent counting 0.
UsageOf(entry, k) ==
    IF entry.message.usage.shape = "dict"
       /\ k \in DOMAIN entry.message.usage.fields
    THEN entry.message.usage.fields[k] ELSE 0

NoExpectation ==
    [calls |-> [T \in ToolNames |-> 0],
     tokens |-> [T \in ToolNames |-> [k \in UsageKeys |-> 0]],
     count |-> [A \in AgentNames |-> 0],
     totals |-> [A \in AgentNames |-> [k \in UsageKeys |-> 0]],
     sessions |-> [A \in AgentNames |-> {}]]

\* The counts after one more entry, block by block.
Expect(x, entry) ==
    LET nT == [T \in ToolNames |-> Cardinality(ToolBlocks(entry, T))]
        nA == [A \in AgentNames |-> Cardinality(AgentBlocks(entry, A))]
        u == [k \in UsageKeys |-> UsageOf(entry, k)]
    IN  IF ~Retained(entry) THEN x
        ELSE [calls |-> [T \in ToolNames |-> x.calls[T] + nT[T]],
              tokens |-> [T \in ToolNames |-> [k \in UsageKeys |->
                            x.tokens[T][k] + nT[T] * u[k]]],
              count |-> [A \in AgentNames |-> x.count[A] + nA[A]],
              totals |-> [A \in AgentNames |-> [k \in UsageKeys |->
                            x.totals[A][k] + nA[A] * u[k]]],
              sessions |-> [A \in AgentNames |->
                            IF nA[A] > 0 /\ entry.sessionId # ""
                            THEN x.sessions[A] \cup {entry.sessionId}
                            ELSE x.sessions[A]]]

\* Well-shaped fields: message, usage and every block's input are objects
\* (or absent).
WellShaped(entry) ==
    /\ entry.message.shape # "other"
    /\ entry.message.usage.shape # "other"
    /\ \A i \in DOMAIN entry.message.content :
          entry.message.content[i].input.shape # "other"

\* A well-formed record: an object with well-shaped fields whose timestamp is
\* absent or an instant.
WellFormed(entry) ==
    /\ entry.shape = "dict"
    /\ entry.timestamp.kind \in {"absent", "aware"}
    /\ WellShaped(entry)

\* process_entry with the time-window rule of the specification in place of
\* the date-range check of the code.
TwinEntry(st, entry) ==
    IF entry.shape = "dict" /\ Excluded(entry) THEN Ok(st)
    ELSE process_entry(st, [entry EXCEPT !.timestamp = NoTimestamp])

-----------------------------------------------------------------------------
(* The run: main() calls analyze_all_sessions, then a report generator     *)

VARIABLES tool_usage, tool_token_usage, agent_usage, sessions_analyzed,
          total_sessions, pc, pending, nread, reported, report,
          before, last_exc, expected, twin, ts_stop, wf, shaped, dir, parsed

Agg == [tool_usage |-> tool_usage, tool_token_usage |-> tool_token_usage,
        agent_usage |-> agent_usage, sessions_analyzed |-> sessions_analyzed]

SetAgg(st) ==
    /\ tool_usage' = st.tool_usage
    /\ tool_token_usage' = st.tool_token_usage
    /\ agent_usage' = st.agent_usage
    /\ sessions_analyzed' = st.sessions_analyzed

aggVars == <<tool_usage, tool_token_usage, agent_usage, sessions_analyzed>>
histVars == <<before, last_exc, expected, twin, ts_stop, wf, shaped>>
dirVars == <<dir, parsed>>
vars == <<tool_usage, tool_token_usage, agent_usage, sessions_analyzed,
          total_sessions, pc, pending, nread, reported, report,
          before, last_exc, expected, twin, ts_stop, wf, shaped, dir, parsed>>

NoReport == [format |-> "none"]

\* The state after ClaudeUsageMonitor.__init__.
Constructed ==
    /\ tool_usage = Fresh.tool_usage
    /\ tool_token_usage = Fresh.tool_token_usage
    /\ agent_usage = Fresh.agent_usage
    /\ sessions_analyzed = Fresh.sessions_analyzed
    /\ total_sessions = 0
    /\ pc = "start"
    /\ pending = 0
    /\ nread = 0
    /\ reported = FALSE
    /\ report = NoReport
    /\ before = Fresh
    /\ last_exc = ""
    /\ expected = NoExpectation
    /\ twin = Fresh
    /\ ts_stop = FALSE
    /\ wf = Fresh
    /\ shaped = TRUE
    /\ parsed = {}

\* The lines of the files are drawn as they are read.
Init == Constructed /\ dir = <<>>

\* analyze_all_sessions: the sessions directory does not exist.
AnalyzeMissingDir ==
    /\ pc = "start"
    /\ pc' = "analyzed"
    /\ UNCHANGED <<dirVars, aggVars, total_sessions, pending, nread, reported, report,
                   histVars>>

\* analyze_all_sessions: glob finds n files.
AnalyzeGlob ==
    /\ pc = "start"
    /\ \E n \in 0..MaxFiles :
          /\ total_sessions' = n
          /\ pending' = n
    /\ pc' = "loop"
    /\ UNCHANGED <<dirVars, aggVars, nread, reported, report, histVars>>

\* parse_session_file is called with the next file and opens it.
OpenFile ==
    /\ pc = "loop" /\ pending > 0
    /\ pending' = pending - 1
    /\ pc' = "read"
    /\ reported' = FALSE
    /\ before' = Agg
    /\ last_exc' = ""
    /\ UNCHANGED <<dirVars, aggVars, total_sessions, nread, report, expected, twin,
                   ts_stop, wf, shaped>>

\* parse_session_file is called with the next file and open() raises.
OpenFail ==
    /\ pc = "loop" /\ pending > 0
    /\ pending' = pending - 1
    /\ pc' = IF LineOutcome("OSError") = "reported" THEN "loop" ELSE "crashed"
    /\ reported' = (LineOutcome("OSError") = "reported")
    /\ before' = Agg
    /\ last_exc' = "OSError"
    /\ UNCHANGED <<dirVars, aggVars, total_sessions, nread, report, expected, twin,
                   ts_stop, wf, shaped>>

\* The loop of parse_session_file reads one more line.
ReadLine ==
    /\ pc = "read" /\ nread < MaxLines
    /\ \E line \in Lines :
          LET r == ParseLine(Agg, line)
              e == line.entry
              tw == TwinEntry(twin, e)
          IN  /\ SetAgg(r.st)
              /\ last_exc' = r.raised
              /\ pc' = CASE LineOutcome(r.raised) = "continue" -> "read"
                         [] LineOutcome(r.raised) = "reported" -> "loop"
                         [] OTHER -> "crashed"
              /\ reported' = (LineOutcome(r.raised) = "reported")
              /\ IF line.kind = "json"
                 THEN /\ expected' = Expect(expected, e)
                      /\ twin' = tw.st
                      /\ ts_stop' = (ts_stop \/ (r.raised # "" /\ tw.raised = ""))
                      /\ wf' = IF WellFormed(e) THEN process_entry(wf, e).st
                               ELSE wf
                      /\ shaped' = (shaped /\ WellShaped(e))
                 ELSE UNCHANGED <<expected, twin, ts_stop, wf, shaped>>
    /\ nread' = nread + 1
    /\ UNCHANGED <<dirVars, total_sessions, pending, report, before>>

\* Reading the file raises (an I/O or decoding error) before the next line.
ReadFail ==
    /\ pc = "read"
    /\ \E exc \in {"OSError", "UnicodeDecodeError"} :
          /\ last_exc' = exc
          /\ pc' = IF LineOutcome(exc) = "reported" THEN "loop" ELSE "crashed"
          /\ reported' = (LineOutcome(exc) = "reported")
    /\ UNCHANGED <<dirVars, aggVars, total_sessions, pending, nread, report, before,
                   expected, twin, ts_stop, wf, shaped>>

\* The file is exhausted: parse_session_file returns.
EndOfFile ==
    /\ pc = "read"
    /\ pc' = "loop"
    /\ UNCHANGED <<dirVars, aggVars, total_sessions, pending, nread, reported, report,
                   histVars>>

\* The loop of analyze_all_sessions is over.
FinishAnalyze ==
    /\ pc = "loop" /\ pending = 0
    /\ pc' = "analyzed"
    /\ UNCHANGED <<dirVars, aggVars, total_sessions, pending, nread, reported, report,
                   histVars>>

\* main() with --format text: generate_text_report.
GenerateTextReport ==
    /\ pc = "analyzed"
    /\ SetAgg(TextReportTouch(Agg))
    /\ report' = TextReport(TextReportTouch(Agg), total_sessions)
    /\ UNCHANGED <<dirVars, total_sessions, pc, pending, nread, reported, histVars>>

\* main() with --format json: generate_json_report.
GenerateJsonReport ==
    /\ pc = "analyzed"
    /\ report' = JsonReport(Agg, total_sessions)
    /\ UNCHANGED <<dirVars, aggVars, total_sessions, pc, pending, nread, reported,
                   histVars>>

Next ==
    \/ AnalyzeMissingDir
    \/ AnalyzeGlob
    \/ OpenFile
    \/ OpenFail
    \/ ReadLine
    \/ ReadFail
    \/ EndOfFile
    \/ FinishAnalyze
    \/ GenerateTextReport
    \/ GenerateJsonReport

Spec == Init /\ [][Next]_vars

-----------------------------------------------------------------------------
(* The same run over a directory whose files are fixed beforehand, parsed  *)
(* in whatever order glob lists them                                       *)

\* The lines the files of the directory are made of.
OrderLines ==
    {[kind |-> "badjson", entry |-> NoEntry]}
    \cup {[kind |-> "json", entry |-> e] : e \in
            {e \in Entries :
                /\ e.shape = "dict"
                /\ e.timestamp = NoTimestamp
                /\ e.sessionId # ""
                /\ e.message.shape = "dict"
                /\ e.message.usage = SomeUsage
                /\ Len(e.message.content) = 1
                /\ e.message.content[1].type = "tool_use"
                /\ e.message.content[1].name = "Task"
                /\ e.message.content[1].input.shape # "absent"
                /\ e.message.content[1].input.agent = ""
                /\ e.sessionId = "s2" =>
                      e.message.content[1].input.subagent_type # ""}}

\* The files: up to two lines each.
OrderFiles ==
    {<<>>} \cup {<<l>> : l \in OrderLines}
    \cup {<<l, m>> : l \in OrderLines, m \in OrderLines}

InitOrder == Constructed /\ dir \in [1..MaxFiles -> OrderFiles]

\* analyze_all_sessions: glob lists the files of the directory.
GlobStored ==
    /\ pc = "start"
    /\ total_sessions' = Len(dir)
    /\ pc' = "loop"
    /\ UNCHANGED <<dirVars, aggVars, pending, nread, reported, report, histVars>>

\* The loop of analyze_all_sessions takes a file not yet parsed:
\* parse_session_file from the call to the return.
ParseStored ==
    /\ pc = "loop"
    /\ \E i \in DOMAIN dir \ parsed :
          LET r == parse_session_file(Agg, dir[i])
          IN  /\ SetAgg(r.st)
              /\ reported' = (r.outcome = "reported")
              /\ pc' = IF r.outcome = "crashed" THEN "crashed" ELSE "loop"
              /\ parsed' = parsed \cup {i}
    /\ UNCHANGED <<dir, total_sessions, pending, nread, report, histVars>>

\* The loop of analyze_all_sessions is over.
FinishStored ==
    /\ pc = "loop" /\ parsed = DOMAIN dir
    /\ pc' = "analyzed"
    /\ UNCHANGED <<dirVars, aggVars, total_sessions, pending, nread, reported,
                   report, histVars>>

NextOrder == GlobStored \/ ParseStored \/ FinishStored

SpecOrder == InitOrder /\ [][NextOrder]_vars

-----------------------------------------------------------------------------
(* Reading the aggregation state                                           *)

CallCount(st, T) == IF T \in DOMAIN st.tool_usage THEN st.tool_usage[T] ELSE 0

\* The total a usage key is added to.
ToolField(k) ==
    CASE k = "input_tokens" -> "input_tokens"
      [] k = "output_tokens" -> "output_tokens"
      [] k = "cache_creation_input_tokens" -> "cache_creation_tokens"
      [] OTHER -> "cache_read_tokens"
AgentField(k) ==
    CASE k = "input_tokens" -> "total_input_tokens"
      [] k = "output_tokens" -> "total_output_tokens"
      [] k = "cache_creation_input_tokens" -> "total_cache_creation_tokens"
      [] OTHER -> "total_cache_read_tokens"

ToolTotal(st, T, k) ==
    IF T \in DOMAIN st.tool_token_usage
    THEN st.tool_token_usage[T][ToolField(k)] ELSE 0
AgentCount(st, A) ==
    IF A \in DOMAIN st.agent_usage THEN st.agent_usage[A].count ELSE 0
AgentTotal(st, A, k) ==
    IF A \in DOMAIN st.agent_usage THEN st.agent_usage[A][AgentField(k)] ELSE 0
AgentSessions(st, A) ==
    IF A \in DOMAIN st.agent_usage THEN st.agent_usage[A].sessions ELSE {}

AllTools(st) == DOMAIN st.tool_usage \cup DOMAIN st.tool_token_usage

-----------------------------------------------------------------------------
(* Merging aggregation states: key-wise sum of counters, union of sets     *)

MergeToolTokens(x, y) ==
    [input_tokens |-> x.input_tokens + y.input_tokens,
     output_tokens |-> x.output_tokens + y.output_tokens,
     cache_creation_tokens |-> x.cache_creation_tokens + y.cache_creation_tokens,
     cache_read_tokens |-> x.cache_read_tokens + y.cache_read_tokens]

MergeAgent(x, y) ==
    [count |-> x.count + y.count,
     total_input_tokens |-> x.total_input_tokens + y.total_input_tokens,
     total_output_tokens |-> x.total_output_tokens + y.total_output_tokens,
     total_cache_creation_tokens |->
        x.total_cache_creation_tokens + y.total_cache_creation_tokens,
     total_cache_read_tokens |->
        x.total_cache_read_tokens + y.total_cache_read_tokens,
     sessions |-> x.sessions \cup y.sessions]

At(d, k, default) == IF k \in DOMAIN d THEN d[k] ELSE default

Merge(a, b) ==
    [tool_usage |->
        [T \in DOMAIN a.tool_usage \cup DOMAIN b.tool_usage |->
            At(a.tool_usage, T, 0) + At(b.tool_usage, T, 0)],
     tool_token_usage |->
        [T \in DOMAIN a.tool_token_usage \cup DOMAIN b.tool_token_usage |->
            MergeToolTokens(At(a.tool_token_usage, T, NewToolTokens),
                            At(b.tool_token_usage, T, NewToolTokens))],
     agent_usage |->
        [A \in DOMAIN a.agent_usage \cup DOMAIN b.agent_usage |->
            MergeAgent(At(a.agent_usage, A, NewAgent),
                       At(b.agent_usage, A, NewAgent))],
     sessions_analyzed |-> a.sessions_analyzed \cup b.sessions_analyzed]

\* File i of the directory aggregated on its own into a fresh state.
Solo(i) == parse_session_file(Fresh, dir[i]).st

\* The merge of the files of S, each aggregated on its own.
RECURSIVE MergeOf(_)
MergeOf(S) ==
    IF S = {} THEN Fresh
    ELSE LET i == CHOOSE x \in S : TRUE
         IN  Merge(Solo(i), MergeOf(S \ {i}))

-----------------------------------------------------------------------------
(* The claims                                                              *)

\* C1 (time-window filter): an entry is left out of every aggregate iff its
\* timestamp is an instant strictly before the cutoff; every other entry
\* (no timestamp, a timestamp at or after the cutoff, a timestamp that does
\* not parse) is aggregated like an entry without a timestamp, and no
\* entry's timestamp stops the processing of the entries after it.  Stated
\* as: while the files are parsed the aggregates equal those of the same run
\* under that rule, and no line raised where the rule does not.
C1_TimeWindowFilter ==
    /\ ~ts_stop
    /\ pc \in {"read", "loop"} => Agg = twin

\* C2 (counting correctness): the call count of every tool T is the number
\* of tool_use blocks named T in the retained entries processed so far, and
\* no other name has a count.
C2_CountingCorrectness ==
    /\ \A T \in ToolNames : CallCount(Agg, T) = expected.calls[T]
    /\ DOMAIN tool_usage \subseteq ToolNames

\* C3 (per-block token attribution): each of the four token totals of tool T
\* is the sum, over the tool_use blocks named T, of that field of the usage
\* of the block's entry (absent counting 0).
C3_PerBlockTokens ==
    \A T \in ToolNames : \A k \in UsageKeys :
        ToolTotal(Agg, T, k) = expected.tokens[T][k]

\* C4 (agent attribution): every Task block naming agent A by subagent_type
\* (or, failing that, agent) adds 1 to A's count, the entry's usage to A's
\* totals and the entry's session id, if present, to A's sessions; nothing
\* else changes the statistics of an agent.
C4_AgentAttribution ==
    /\ DOMAIN agent_usage \subseteq AgentNames
    /\ \A A \in AgentNames :
          /\ AgentCount(Agg, A) = expected.count[A]
          /\ \A k \in UsageKeys : AgentTotal(Agg, A, k) = expected.totals[A][k]
          /\ AgentSessions(Agg, A) = expected.sessions[A]

\* C5 (unreadable file): when parse_session_file has reported an error for a
\* file, every aggregate has the value it had before the call, and the run
\* goes on with the other files.
C5_FailedFileAbsent ==
    /\ pc # "crashed"
    /\ (pc = "loop" /\ reported) => Agg = before

\* C6 as first stated (no input is fatal, malformed input only undercounts):
\* the run never leaves analyze_all_sessions by an exception, and every count
\* and token total is at most its value over the well-formed records.
C6_NoFatalUndercount ==
    /\ pc # "crashed"
    /\ \A T \in AllTools(Agg) :
          /\ CallCount(Agg, T) <= CallCount(wf, T)
          /\ \A k \in UsageKeys : ToolTotal(Agg, T, k) <= ToolTotal(wf, T, k)
    /\ \A A \in DOMAIN agent_usage :
          /\ AgentCount(Agg, A) <= AgentCount(wf, A)
          /\ \A k \in UsageKeys : AgentTotal(Agg, A, k) <= AgentTotal(wf, A, k)

\* The bound that does hold: the blocks of every JSON object of the input
\* that the time window retains, well-formed or not.
WithinAllRecords ==
    /\ DOMAIN tool_usage \subseteq ToolNames
    /\ DOMAIN tool_token_usage \subseteq ToolNames
    /\ DOMAIN agent_usage \subseteq AgentNames
    /\ \A T \in ToolNames :
          /\ CallCount(Agg, T) <= expected.calls[T]
          /\ \A k \in UsageKeys : ToolTotal(Agg, T, k) <= expected.tokens[T][k]
    /\ \A A \in AgentNames :
          /\ AgentCount(Agg, A) <= expected.count[A]
          /\ \A k \in UsageKeys : AgentTotal(Agg, A, k) <= expected.totals[A][k]
          /\ AgentSessions(Agg, A) \subseteq expected.sessions[A]

\* A line that is not valid JSON changes no aggregate and is followed by the
\* next line of the file.
BadJsonSkipped ==
    (nread' = nread + 1 /\ last_exc' = "JSONDecodeError")
        => (pc' = "read" /\ UNCHANGED aggVars)

\* C6, amended: the run never leaves analyze_all_sessions by an exception;
\* every count and token total is at most its value over all the JSON
\* objects of the input that the time window retains (a wrongly-shaped
\* record is not dropped whole: what was counted before it failed stays);
\* and a line that is not valid JSON changes nothing and does not end the
\* file.
C6_NoFatalBounded ==
    [](pc # "crashed" /\ WithinAllRecords) /\ [][BadJsonSkipped]_vars

\* Witness of C6: a line that is not valid JSON has just been skipped, in a
\* run where a wrongly-formed record has left its counts behind.
C6_Witness ==
    /\ pc = "read" /\ last_exc = "JSONDecodeError"
    /\ \E T \in ToolNames : CallCount(Agg, T) > CallCount(wf, T)

NonNegative(st) ==
    /\ \A T \in DOMAIN st.tool_usage : st.tool_usage[T] >= 0
    /\ \A T \in DOMAIN st.tool_token_usage : \A k \in UsageKeys :
          ToolTotal(st, T, k) >= 0
    /\ \A A \in DOMAIN st.agent_usage :
          /\ st.agent_usage[A].count >= 0
          /\ \A k \in UsageKeys : AgentTotal(st, A, k) >= 0

\* From state a to state b no key is lost, no number decreases and no set
\* loses an element.
Grows(a, b) ==
    /\ DOMAIN a.tool_usage \subseteq DOMAIN b.tool_usage
    /\ DOMAIN a.tool_token_usage \subseteq DOMAIN b.tool_token_usage
    /\ DOMAIN a.agent_usage \subseteq DOMAIN b.agent_usage
    /\ \A T \in DOMAIN a.tool_usage : a.tool_usage[T] <= b.tool_usage[T]
    /\ \A T \in DOMAIN a.tool_token_usage : \A k \in UsageKeys :
          ToolTotal(a, T, k) <= ToolTotal(b, T, k)
    /\ \A A \in DOMAIN a.agent_usage :
          /\ a.agent_usage[A].count <= b.agent_usage[A].count
          /\ \A k \in UsageKeys : AgentTotal(a, A, k) <= AgentTotal(b, A, k)
          /\ a.agent_usage[A].sessions \subseteq b.agent_usage[A].sessions
    /\ a.sessions_analyzed \subseteq b.sessions_analyzed

AggNext ==
    [tool_usage |-> tool_usage', tool_token_usage |-> tool_token_usage',
     agent_usage |-> agent_usage', sessions_analyzed |-> sessions_analyzed']

C8_ReportsReadOnly ==
    [][pc = "analyzed" => UNCHANGED <<aggVars, total_sessions>>]_vars

\* C9 (order independence): whatever the order in which the files have been
\* parsed, the aggregation state is the merge of the states obtained from
\* each parsed file on its own; at the end of analyze_all_sessions it is the
\* merge over all the files.
C9_OrderIndependence == Agg = MergeOf(parsed)

\* Witness of C9: the run is over, two files had something to merge under
\* the same keys, and one of them was left at a failing line.
C9_Witness ==
    /\ pc = "analyzed" /\ reported
    /\ \E i \in parsed : \E j \in parsed \ {i} :
          /\ \E A \in DOMAIN Solo(i).agent_usage \cap DOMAIN Solo(j).agent_usage :
                Solo(i).agent_usage[A].sessions # Solo(j).agent_usage[A].sessions
          /\ CallCount(Solo(i), "Task") > 0
          /\ CallCount(Solo(j), "Task") > 1

\* C10 (the two views of the same usage): as long as the entries processed
\* were well-shaped, tool Task has at least the agents' invocations and, in
\* each of the four totals, at least the agents' tokens; every agent's
\* sessions are sessions of the run; the tools counted are the tools with
\* token totals; so each component sum of the cost estimate holds the
\* agents' tokens twice.
C10_TaskCoversAgents ==
    shaped =>
        /\ CallCount(Agg, "Task") >= SumField(agent_usage, "count")
        /\ \A k \in UsageKeys :
              ToolTotal(Agg, "Task", k) >= SumField(agent_usage, AgentField(k))
        /\ \A A \in DOMAIN agent_usage :
              agent_usage[A].sessions \subseteq sessions_analyzed
        /\ DOMAIN tool_usage = DOMAIN tool_token_usage
        /\ total_input(Agg) >= 2 * SumField(agent_usage, "total_input_tokens")
        /\ total_output(Agg) >= 2 * SumField(agent_usage, "total_output_tokens")
        /\ total_cache_create(Agg)
              >= 2 * SumField(agent_usage, "total_cache_creation_tokens")
        /\ total_cache_read_all(Agg)
              >= 2 * SumField(agent_usage, "total_cache_read_tokens")

\* Witness of C10: both agents were invoked, by well-shaped entries, beside
\* a Task block naming no agent, and the run is over.
C10_Witness ==
    /\ shaped /\ pc = "analyzed"
    /\ DOMAIN agent_usage = AgentNames
    /\ CallCount(Agg, "Task") > SumField(agent_usage, "count")
    /\ SumField(agent_usage, "total_input_tokens") > 0

====
